---- MODULE Spec2Model ----
(***************************************************************************)
(* Model of ai_processor.py: the retrying Gemini call, the recovery        *)
(* parse of its response text, the normalisation of the extracted          *)
(* records against the schema and the metadata index, and the batch loop   *)
(* of main.                                                                *)
(*                                                                         *)
(* A text is a sequence of tokens.  "[" "]" "{" "}" "," are themselves,     *)
(* "w" is a whitespace character (blank or newline), "x" is a character     *)
(* of prose, "1" and "null" are JSON scalars, and a member token "k=v"      *)
(* is the object member  "k": v  with a scalar v.  A parsed JSON value is   *)
(* the canonical token sequence of the value: no whitespace, and each       *)
(* object holding one member per key as a Python dict does.  Python's       *)
(* None is the value <<"null">>.                                           *)
(***************************************************************************)
EXTENDS Integers, Sequences, FiniteSets, TLC

VARIABLES
    pc,                       \* position of the running function
    config,                   \* contents of config.ini
    metadata,                 \* contents of files_metadata.json
    units,                    \* the .txt files of the raw texts folder
    response_schema,          \* the parsed schema: its kind and the fields of items.properties
    max_retries,
    initial_delay,
    filename_to_link_mapping,
    unit,                     \* index of the unit main is at
    all_processed_data,       \* the batch
    contributed,              \* per finished unit, the records it returned
    saved,                    \* the output file: <<>> before main writes it
    attempt,                  \* loop variable of call_gemini_api_with_retries
    requests,                 \* requests.post calls issued by the current call
    sleeps,                   \* delays slept by the current call, in order
    reports,                  \* attempt-level messages printed by the call
    lastOutcome,              \* what the latest attempt met
    gemini_response,          \* value returned by the call
    json_string,              \* text handed to the parser
    parsed,                   \* result of parsing json_string
    transaction,              \* raw record being normalised
    processed_transaction,    \* its normalised record
    csv                       \* the report file: its rows once it is written

vars == <<pc, config, metadata, units, response_schema, max_retries,
          initial_delay, filename_to_link_mapping, unit, all_processed_data,
          contributed, saved, attempt, requests, sleeps, reports, lastOutcome,
          gemini_response, json_string, parsed, transaction,
          processed_transaction, csv>>

----------------------------------------------------------------------------
(* Bounds *)

MaxLen == 5          \* longest enumerated response text, in tokens
MaxRetries == 3      \* largest max_retries of an isolated call
MaxDelay == 2        \* largest initial_delay of an isolated call
MaxFields == 2       \* longest enumerated schema field list
MaxMembers == 2      \* most members of an enumerated raw record
MaxEntries == 2      \* most entries of an enumerated metadata file
MaxUnits == 3        \* most text files in the raw texts folder

----------------------------------------------------------------------------
(* Tokens and Python values *)

None == <<"null">>

Members == {"date=a", "date=null", "original_file_name=doc1",
            "original_file_name=doc2", "drive_link=z", "extra=q"}

Key(m) ==
    CASE m \in {"date=a", "date=null"} -> "date"
      [] m \in {"original_file_name=doc1", "original_file_name=doc2"}
            -> "original_file_name"
      [] m = "drive_link=z" -> "drive_link"
      [] OTHER -> "extra"

Val(m) ==
    CASE m = "date=a" -> "a"
      [] m = "date=null" -> "null"
      [] m = "original_file_name=doc1" -> "doc1"
      [] m = "original_file_name=doc2" -> "doc2"
      [] m = "drive_link=z" -> "z"
      [] OTHER -> "q"

Scalars == {"1", "null"}

Tokens == {"[", "]", "{", "}", ",", "w", "x"} \cup Scalars \cup Members

RECURSIVE SeqsUpTo(_, _)
SeqsUpTo(S, n) ==
    IF n = 0 THEN {<<>>}
    ELSE LET shorter == SeqsUpTo(S, n - 1)
         IN  shorter \cup {Append(s, t) : s \in {r \in shorter : Len(r) = n - 1}, t \in S}

Min(S) == CHOOSE i \in S : \A j \in S : i <= j
Max(S) == CHOOSE i \in S : \A j \in S : j <= i

RECURSIVE Pow2(_)
Pow2(n) == IF n = 0 THEN 1 ELSE 2 * Pow2(n - 1)

----------------------------------------------------------------------------
(* json.loads *)

RECURSIVE SkipWs(_, _)
SkipWs(s, i) ==
    IF i <= Len(s) /\ s[i] = "w" THEN SkipWs(s, i + 1) ELSE i

\* Each scanner returns the position after what it scanned, 0 when the text
\* is not JSON there.
RECURSIVE ScanValue(_, _), ScanElements(_, _), ScanMembers(_, _)
ScanValue(s, i) ==
    IF i > Len(s) THEN 0
    ELSE IF s[i] \in Scalars THEN i + 1
    ELSE IF s[i] = "[" THEN
        LET j == SkipWs(s, i + 1)
        IN  IF j <= Len(s) /\ s[j] = "]" THEN j + 1 ELSE ScanElements(s, j)
    ELSE IF s[i] = "{" THEN
        LET j == SkipWs(s, i + 1)
        IN  IF j <= Len(s) /\ s[j] = "}" THEN j + 1 ELSE ScanMembers(s, j)
    ELSE 0

ScanElements(s, i) ==
    LET e == ScanValue(s, i)
        j == SkipWs(s, e)
    IN  IF e = 0 \/ j > Len(s) THEN 0
        ELSE IF s[j] = "]" THEN j + 1
        ELSE IF s[j] = "," THEN ScanElements(s, SkipWs(s, j + 1))
        ELSE 0

ScanMembers(s, i) ==
    IF i > Len(s) \/ s[i] \notin Members THEN 0
    ELSE LET j == SkipWs(s, i + 1)
         IN  IF j > Len(s) THEN 0
             ELSE IF s[j] = "}" THEN j + 1
             ELSE IF s[j] = "," THEN ScanMembers(s, SkipWs(s, j + 1))
             ELSE 0

\* json.loads(s) does not raise JSONDecodeError
IsJson(s) ==
    LET e == ScanValue(s, SkipWs(s, 1))
    IN  e # 0 /\ SkipWs(s, e) = Len(s) + 1

\* d[k] = m on a dict kept as its member tokens in insertion order
DictPut(d, m) ==
    IF \E p \in 1..Len(d) : Key(d[p]) = Key(m)
    THEN [p \in 1..Len(d) |-> IF Key(d[p]) = Key(m) THEN m ELSE d[p]]
    ELSE Append(d, m)

RECURSIVE DictOf(_)
DictOf(ms) ==
    IF ms = <<>> THEN <<>>
    ELSE DictPut(DictOf(SubSeq(ms, 1, Len(ms) - 1)), ms[Len(ms)])

RECURSIVE Commas(_)
Commas(d) ==
    IF Len(d) <= 1 THEN d ELSE <<d[1], ",">> \o Commas(Tail(d))

\* whitespace dropped, and the members of each object merged by key
RECURSIVE Canon(_)
Canon(s) ==
    IF s = <<>> THEN <<>>
    ELSE IF s[1] = "w" THEN Canon(Tail(s))
    ELSE IF s[1] = "{" /\ \E j \in 2..Len(s) : s[j] = "}" THEN
        LET j == Min({k \in 2..Len(s) : s[k] = "}"})
            ms == SelectSeq(SubSeq(s, 2, j - 1), LAMBDA t : t \in Members)
        IN  <<"{">> \o Commas(DictOf(ms)) \o <<"}">> \o Canon(SubSeq(s, j + 1, Len(s)))
    ELSE <<s[1]>> \o Canon(Tail(s))

json_loads(s) == Canon(s)

----------------------------------------------------------------------------
(* re.search(r'\[.*\]|\{.*\}', s, re.DOTALL) *)

Closer(t) == IF t = "[" THEN "]" ELSE "}"

MatchStarts(s) ==
    {i \in 1..Len(s) : /\ s[i] \in {"[", "{"}
                       /\ \E j \in (i + 1)..Len(s) : s[j] = Closer(s[i])}

\* the lazy quantifier .*? in place of the greedy one
MatchEndLazy(s, i) == Min({j \in (i + 1)..Len(s) : s[j] = Closer(s[i])})

MatchEnd(s, i) == Max({j \in (i + 1)..Len(s) : s[j] = Closer(s[i])})

re_search(s) ==
    IF MatchStarts(s) = {} THEN [found |-> FALSE, group |-> <<>>]
    ELSE LET i == Min(MatchStarts(s))
         IN  [found |-> TRUE, group |-> SubSeq(s, i, MatchEnd(s, i))]

\* lines 31-41: the primary parse, then the parse of the matched substring
ParseResponse(s) ==
    IF IsJson(s) THEN [ok |-> TRUE, path |-> "primary", value |-> json_loads(s)]
    ELSE LET match == re_search(s)
         IN  IF match.found /\ IsJson(match.group)
             THEN [ok |-> TRUE, path |-> "fallback", value |-> json_loads(match.group)]
             ELSE [ok |-> FALSE,
                   path |-> IF match.found THEN "substring" ELSE "nomatch",
                   value |-> None]

----------------------------------------------------------------------------
(* load_metadata *)

Absent == "<absent>"           \* the key is not in the JSON object

EmptyIndex == [n \in {} |-> ""]

IndexPut(index, name, link) ==
    [n \in DOMAIN index \cup {name} |-> IF n = name THEN link ELSE index[n]]

\* file_info.get('filename') is truthy
HasFilename(file_info) == file_info.filename \notin {Absent, "null", ""}

\* file_info.get('link', 'Link not available')
LinkOf(file_info) ==
    IF file_info.link = Absent THEN "Link not available" ELSE file_info.link

RECURSIVE IndexOf(_)
IndexOf(entries) ==
    IF entries = <<>> THEN EmptyIndex
    ELSE LET rest == IndexOf(SubSeq(entries, 1, Len(entries) - 1))
             file_info == entries[Len(entries)]
         IN  IF HasFilename(file_info)
             THEN IndexPut(rest, file_info.filename, LinkOf(file_info))
             ELSE rest

load_metadata(meta) ==
    IF meta.kind = "ok" THEN IndexOf(meta.entries) ELSE EmptyIndex

----------------------------------------------------------------------------
(* process_combined_text_file, lines 90-112 *)

\* transaction.get(k) or default: a null value taken for a missing key
dict_get_or(d, k, default) ==
    IF \E p \in 1..Len(d) : Key(d[p]) = k /\ Val(d[p]) # "null"
    THEN Val(d[CHOOSE p \in 1..Len(d) : Key(d[p]) = k])
    ELSE default

\* transaction.get(k, default) on a raw record kept as its member tokens
dict_get(d, k, default) ==
    IF \E p \in 1..Len(d) : Key(d[p]) = k
    THEN Val(d[CHOOSE p \in 1..Len(d) : Key(d[p]) = k])
    ELSE default

\* processed_transaction[k] = v on a dict kept as <<key, value>> pairs
dict_set(d, k, v) ==
    IF \E p \in 1..Len(d) : d[p][1] = k
    THEN [p \in 1..Len(d) |-> IF d[p][1] = k THEN <<k, v>> ELSE d[p]]
    ELSE Append(d, <<k, v>>)

\* filename_to_link_mapping.get(original_name, 'Link not found')
index_get(index, name) ==
    IF name \in DOMAIN index THEN index[name] ELSE "Link not found"

RECURSIVE CopyFields(_, _)
CopyFields(raw, fields) ==
    IF fields = <<>> THEN <<>>
    ELSE LET field == fields[Len(fields)]
         IN  dict_set(CopyFields(raw, SubSeq(fields, 1, Len(fields) - 1)),
                      field, dict_get(raw, field, "N/A"))

\* the record started as a copy of the raw record
NormalizeKeepsRaw(raw, fields, index) ==
    dict_set(CopyFields(raw, [p \in 1..Len(raw) |-> Key(raw[p])] \o fields), "drive_link",
             index_get(index, dict_get(raw, "original_file_name", "null")))

\* lines 99-105
Normalize(raw, fields, index) ==
    dict_set(CopyFields(raw, fields), "drive_link",
             index_get(index, dict_get(raw, "original_file_name", "null")))

\* not gemini_response
Falsy(v) == v \in {None, <<"[", "]">>, <<"{", "}">>}

\* the elements of a parsed array, each as its own value
RECURSIVE SplitElements(_, _, _)
SplitElements(s, depth, current) ==
    IF s = <<>> THEN <<>>
    ELSE LET t == s[1]
         IN  IF t \in {"[", "{"} THEN
                 SplitElements(Tail(s), depth + 1,
                               IF depth = 0 THEN <<>> ELSE Append(current, t))
             ELSE IF t \in {"]", "}"} THEN
                 IF depth = 1
                 THEN IF current = <<>> THEN <<>> ELSE <<current>>
                 ELSE SplitElements(Tail(s), depth - 1, Append(current, t))
             ELSE IF t = "," /\ depth = 1 THEN
                 <<current>> \o SplitElements(Tail(s), depth, <<>>)
             ELSE SplitElements(Tail(s), depth, Append(current, t))

IsList(v) == v # <<>> /\ v[1] = "["
IsDict(v) == v # <<>> /\ v[1] = "{"
MembersOf(v) == SelectSeq(v, LAMBDA t : t \in Members)

\* the except clause returning the records built before the raise
ExtractRecordsPartial(response, fields, index) ==
    LET elements == IF IsList(response) THEN SplitElements(response, 0, <<>>) ELSE <<>>
        raised == \/ ~IsList(response)
                  \/ \E p \in 1..Len(elements) : ~IsDict(elements[p])
        built == IF ~raised THEN Len(elements)
                 ELSE IF elements = <<>> THEN 0
                 ELSE Min({p \in 1..Len(elements) : ~IsDict(elements[p])}) - 1
    IN  [raised |-> raised,
         data |-> [p \in 1..built |->
                       Normalize(MembersOf(elements[p]), fields, index)]]

\* lines 95-112 for a truthy response: the loop raises when the response
\* is not a list or an element is not a dict, and the except clause then
\* returns [] in place of the records built so far
ExtractRecords(response, fields, index) ==
    LET elements == IF IsList(response) THEN SplitElements(response, 0, <<>>) ELSE <<>>
        raised == \/ ~IsList(response)
                  \/ \E p \in 1..Len(elements) : ~IsDict(elements[p])
    IN  [raised |-> raised,
         data |-> IF raised THEN <<>>
                  ELSE [p \in 1..Len(elements) |->
                            Normalize(MembersOf(elements[p]), fields, index)]]

----------------------------------------------------------------------------
(* Inputs *)

\* what one request can meet: lines 25-30 fail in one of these ways or
\* yield the text of the first part of the first candidate
FailureKinds == {"connection_error", "http_error", "bad_body", "no_envelope", "no_parts"}

Record1 == <<"{", "date=a", ",", "original_file_name=doc1", "}">>
Record2 == <<"{", "original_file_name=doc2", ",", "extra=q", "}">>

ResponseTexts ==
    { <<"[">> \o Record1 \o <<"]">>,
      <<"[">> \o Record1 \o <<",", "w">> \o Record2 \o <<"]">>,
      <<"x", "w", "[">> \o Record2 \o <<"]", "w", "x">>,
      <<"[", "]">>,
      <<"null">>,
      <<"x", "x">>,
      <<"x", "[", "x", "]">>,
      Record1,
      <<"[">> \o Record1 \o <<",", "1", "]">>,
      <<"[", "{", "date=null", "}", "]">> }

NoSchema == [kind |-> "none", fields |-> <<>>]
Schema(fields) == [kind |-> "object", fields |-> fields]

\* config.ini as main reads it (lines 116-138) and the two folder paths
\* (lines 144-149)
GoodConfig ==
    [present |-> TRUE, ints_ok |-> TRUE, key_ok |-> TRUE, dirs_ok |-> TRUE,
     prompt_ok |-> TRUE, schema |-> Schema(<<"date", "original_file_name">>),
     max_retries |-> 2, initial_delay |-> 1]

RunConfigs ==
    { GoodConfig,
      [GoodConfig EXCEPT !.max_retries = 0],
      [GoodConfig EXCEPT !.max_retries = 1],
      [GoodConfig EXCEPT !.present = FALSE],
      [GoodConfig EXCEPT !.ints_ok = FALSE],
      [GoodConfig EXCEPT !.key_ok = FALSE],
      [GoodConfig EXCEPT !.dirs_ok = FALSE],
      [GoodConfig EXCEPT !.prompt_ok = FALSE],
      [GoodConfig EXCEPT !.schema = [kind |-> "invalid_json", fields |-> <<>>]],
      [GoodConfig EXCEPT !.schema = [kind |-> "not_object", fields |-> <<>>]],
      [GoodConfig EXCEPT !.schema = Schema(<<>>), !.max_retries = 1] }

NoConfig == [GoodConfig EXCEPT !.present = FALSE]

FileInfos ==
    [filename : {Absent, "doc1", "doc2"}, link : {Absent, "null", "http://l1"}]

NoMetadata == [kind |-> "missing", entries |-> <<>>]

Metadatas ==
    {NoMetadata, [kind |-> "corrupt", entries |-> <<>>]}
    \cup {[kind |-> "ok", entries |-> e] : e \in SeqsUpTo(FileInfos, MaxEntries)}

RunMetadatas ==
    {[kind |-> "ok", entries |-> <<[filename |-> "doc1", link |-> "http://l1"]>>]}

\* a unit is a .txt file that open() and read() accept, or one they do not
UnitLists == SeqsUpTo([readable : BOOLEAN], MaxUnits)

Distinct(s) == \A p, q \in 1..Len(s) : p # q => s[p] # s[q]

FieldNames == {"date", "original_file_name", "drive_link"}
FieldLists == {f \in SeqsUpTo(FieldNames, MaxFields) : Distinct(f)}

\* raw records as json.loads yields them: one member per key
RawRecords ==
    {r \in SeqsUpTo(Members, MaxMembers) :
        \A p, q \in 1..Len(r) : p # q => Key(r[p]) # Key(r[q])}

ParseTokens == {"[", "]", "{", "}", ",", "w", "x", "date=a"}

ExampleTexts ==
    { <<"x", "[", "{", "date=a", "}", "]", "x">>,
      <<"x", "w", "[", "[", "1", "]", ",", "w", "null", "]">> }

NoResult == [ok |-> FALSE, path |-> "none", value |-> None]

----------------------------------------------------------------------------
(* Values of the variables a specification does not use *)

NoSettings ==
    /\ response_schema = NoSchema
    /\ max_retries = 0
    /\ initial_delay = 0
    /\ filename_to_link_mapping = EmptyIndex

NoRun ==
    /\ unit = 0
    /\ all_processed_data = <<>>
    /\ contributed = <<>>
    /\ saved = [written |-> FALSE, data |-> <<>>]
    /\ csv = [written |-> FALSE, rows |-> <<>>]

NoCall ==
    /\ attempt = 0
    /\ requests = 0
    /\ sleeps = <<>>
    /\ reports = 0
    /\ lastOutcome = "none"
    /\ gemini_response = None
    /\ json_string = <<>>

NoRecord ==
    /\ transaction = <<>>
    /\ processed_transaction = <<>>

inputVars == <<config, metadata, units>>
settingVars == <<response_schema, max_retries, initial_delay, filename_to_link_mapping>>
runVars == <<unit, all_processed_data, contributed, saved>>
callVars == <<attempt, requests, sleeps, reports, lastOutcome, gemini_response, json_string>>
recordVars == <<transaction, processed_transaction>>

----------------------------------------------------------------------------
(* call_gemini_api_with_retries *)

\* the exponent counted from the attempt number instead of the loop index
BackoffDelayFromOne(delay, n) == delay * Pow2(n + 1)

\* line 51
BackoffDelay(delay, n) == delay * Pow2(n)

\* what a failed attempt prints about a text: line 39 or line 41
TextFailure(text) ==
    IF ParseResponse(text).path = "substring" THEN "bad_substring" ELSE "no_json"

\* the sleep of lines 50-53 run after a successful attempt too
attempt_returns_then_sleeps ==
    /\ pc = "calling"
    /\ attempt < max_retries
    /\ \E text \in ResponseTexts :
          /\ ParseResponse(text).ok
          /\ json_string' = text
          /\ gemini_response' = ParseResponse(text).value
    /\ requests' = requests + 1
    /\ lastOutcome' = "parsed"
    /\ sleeps' = IF attempt < max_retries - 1
                 THEN Append(sleeps, BackoffDelay(initial_delay, attempt))
                 ELSE sleeps
    /\ pc' = "returned"
    /\ UNCHANGED <<attempt, reports, parsed>>
    /\ UNCHANGED <<csv, inputVars, settingVars, runVars, recordVars>>

\* lines 25-32 and 34-37: an attempt that reaches a return
attempt_returns ==
    /\ pc = "calling"
    /\ attempt < max_retries
    /\ \E text \in ResponseTexts :
          /\ ParseResponse(text).ok
          /\ json_string' = text
          /\ gemini_response' = ParseResponse(text).value
    /\ requests' = requests + 1
    /\ lastOutcome' = "parsed"
    /\ pc' = "returned"
    /\ UNCHANGED <<attempt, sleeps, reports, parsed>>
    /\ UNCHANGED <<csv, inputVars, settingVars, runVars, recordVars>>

\* a text that does not parse ends the call at once, without a retry
attempt_fails_gives_up ==
    /\ pc = "calling"
    /\ attempt < max_retries
    /\ \/ \E kind \in FailureKinds :
             /\ lastOutcome' = kind
             /\ json_string' = <<>>
             /\ pc' = "calling"
             /\ UNCHANGED gemini_response
       \/ \E text \in ResponseTexts :
             /\ ~ParseResponse(text).ok
             /\ lastOutcome' = TextFailure(text)
             /\ json_string' = text
             /\ pc' = "returned"
             /\ gemini_response' = None
    /\ requests' = requests + 1
    /\ reports' = reports + 1
    /\ sleeps' = IF attempt < max_retries - 1
                 THEN Append(sleeps, BackoffDelay(initial_delay, attempt))
                 ELSE sleeps
    /\ attempt' = attempt + 1
    /\ UNCHANGED parsed
    /\ UNCHANGED <<csv, inputVars, settingVars, runVars, recordVars>>

\* the call without its "except Exception" clause: a response whose content
\* has no parts raises KeyError out of the call
attempt_fails_raises ==
    /\ pc = "calling"
    /\ attempt < max_retries
    /\ \/ \E kind \in FailureKinds :
             /\ lastOutcome' = kind
             /\ json_string' = <<>>
             /\ pc' = IF kind = "no_parts" THEN "raised" ELSE "calling"
       \/ \E text \in ResponseTexts :
             /\ ~ParseResponse(text).ok
             /\ lastOutcome' = TextFailure(text)
             /\ json_string' = text
             /\ pc' = "calling"
    /\ requests' = requests + 1
    /\ reports' = reports + 1
    /\ sleeps' = IF attempt < max_retries - 1
                 THEN Append(sleeps, BackoffDelay(initial_delay, attempt))
                 ELSE sleeps
    /\ attempt' = attempt + 1
    /\ UNCHANGED <<gemini_response, parsed>>
    /\ UNCHANGED <<csv, inputVars, settingVars, runVars, recordVars>>

\* lines 25-55: an attempt that fails, its message, and the sleep before
\* the next attempt
attempt_fails ==
    /\ pc = "calling"
    /\ attempt < max_retries
    /\ \/ \E kind \in FailureKinds :
             /\ lastOutcome' = kind
             /\ json_string' = <<>>
       \/ \E text \in ResponseTexts :
             /\ ~ParseResponse(text).ok
             /\ lastOutcome' = TextFailure(text)
             /\ json_string' = text
    /\ requests' = requests + 1
    /\ reports' = reports + 1
    /\ sleeps' = IF attempt < max_retries - 1
                 THEN Append(sleeps, BackoffDelay(initial_delay, attempt))
                 ELSE sleeps
    /\ attempt' = attempt + 1
    /\ pc' = "calling"
    /\ UNCHANGED <<gemini_response, parsed>>
    /\ UNCHANGED <<csv, inputVars, settingVars, runVars, recordVars>>

\* the loop written over range(max_retries - 1)
retries_exhausted_early ==
    /\ pc = "calling"
    /\ attempt >= max_retries - 1
    /\ gemini_response' = None
    /\ pc' = "returned"
    /\ UNCHANGED <<attempt, requests, sleeps, reports, lastOutcome, json_string, parsed>>
    /\ UNCHANGED <<csv, inputVars, settingVars, runVars, recordVars>>

\* lines 23 and 56: the range is used up
retries_exhausted ==
    /\ pc = "calling"
    /\ attempt >= max_retries
    /\ gemini_response' = None
    /\ pc' = "returned"
    /\ UNCHANGED <<attempt, requests, sleeps, reports, lastOutcome, json_string, parsed>>
    /\ UNCHANGED <<csv, inputVars, settingVars, runVars, recordVars>>

----------------------------------------------------------------------------
(* main and process_combined_text_file *)

\* lines 120-149: the settings are read in file order, so a bad integer
\* raises ValueError before the schema is looked at
StartupResult(cfg) ==
    IF ~cfg.present THEN "exit"
    ELSE IF ~cfg.ints_ok THEN "crash"
    ELSE IF cfg.schema.kind = "invalid_json" THEN "exit"
    ELSE IF ~cfg.key_ok THEN "exit"
    ELSE IF ~cfg.dirs_ok THEN "exit"
    ELSE "loop"

\* lines 116-156
main_startup ==
    /\ pc = "start"
    /\ pc' = StartupResult(config)
    /\ IF StartupResult(config) = "loop"
       THEN /\ response_schema' = config.schema
            /\ max_retries' = config.max_retries
            /\ initial_delay' = config.initial_delay
            /\ filename_to_link_mapping' = load_metadata(metadata)
            /\ unit' = 1
       ELSE UNCHANGED <<settingVars, unit>>
    /\ UNCHANGED <<all_processed_data, contributed, saved, parsed>>
    /\ UNCHANGED <<csv, inputVars, callVars, recordVars>>

\* lines 79-86 raise: the file cannot be read, the schema is not a JSON
\* object, or the prompt template does not format
RaisesBeforeCall ==
    \/ ~units[unit].readable
    \/ response_schema.kind # "object"
    \/ ~config.prompt_ok

\* process_combined_text_file without its try: a line that raises ends main
process_unit_begin_unguarded ==
    /\ pc = "loop"
    /\ unit <= Len(units)
    /\ IF RaisesBeforeCall
       THEN /\ pc' = "crash"
            /\ UNCHANGED <<contributed, all_processed_data, unit>>
       ELSE /\ pc' = "calling"
            /\ UNCHANGED <<contributed, all_processed_data, unit>>
    /\ UNCHANGED <<saved, parsed>>
    /\ UNCHANGED <<csv, inputVars, settingVars, callVars, recordVars>>

\* lines 158-163 and 78-88, up to the call; when a line raises, lines
\* 110-112 return [] and main goes on (lines 165-166)
process_unit_begin ==
    /\ pc = "loop"
    /\ unit <= Len(units)
    /\ IF RaisesBeforeCall
       THEN /\ contributed' = Append(contributed, <<>>)
            /\ all_processed_data' = all_processed_data \o <<>>
            /\ unit' = unit + 1
            /\ pc' = "loop"
       ELSE /\ pc' = "calling"
            /\ UNCHANGED <<contributed, all_processed_data, unit>>
    /\ UNCHANGED <<saved, parsed>>
    /\ UNCHANGED <<csv, inputVars, settingVars, callVars, recordVars>>

\* a response that is one object taken for a list of one record
ReturnedRecordsWrapsDict(response, fields, index) ==
    IF Falsy(response) THEN <<>>
    ELSE IF IsDict(response) THEN <<Normalize(MembersOf(response), fields, index)>>
    ELSE ExtractRecords(response, fields, index).data

\* lines 90-112
ReturnedRecords(response, fields, index) ==
    IF Falsy(response) THEN <<>> ELSE ExtractRecords(response, fields, index).data

\* all_processed_data = processed_data in place of extend
process_unit_finish_assigns ==
    /\ pc = "returned"
    /\ LET processed_data == ReturnedRecords(gemini_response, response_schema.fields,
                                             filename_to_link_mapping)
       IN  /\ all_processed_data' = processed_data
           /\ contributed' = Append(contributed, processed_data)
    /\ unit' = unit + 1
    /\ pc' = "loop"
    /\ attempt' = 0
    /\ requests' = 0
    /\ sleeps' = <<>>
    /\ reports' = 0
    /\ lastOutcome' = "none"
    /\ gemini_response' = None
    /\ json_string' = <<>>
    /\ UNCHANGED <<saved, parsed>>
    /\ UNCHANGED <<csv, inputVars, settingVars, recordVars>>

\* lines 88-112 after the call, and lines 165-166
process_unit_finish ==
    /\ pc = "returned"
    /\ LET processed_data == ReturnedRecords(gemini_response, response_schema.fields,
                                             filename_to_link_mapping)
       IN  /\ all_processed_data' = all_processed_data \o processed_data
           /\ contributed' = Append(contributed, processed_data)
    /\ unit' = unit + 1
    /\ pc' = "loop"
    /\ attempt' = 0
    /\ requests' = 0
    /\ sleeps' = <<>>
    /\ reports' = 0
    /\ lastOutcome' = "none"
    /\ gemini_response' = None
    /\ json_string' = <<>>
    /\ UNCHANGED <<saved, parsed>>
    /\ UNCHANGED <<csv, inputVars, settingVars, recordVars>>

\* lines 168-172
main_save ==
    /\ pc = "loop"
    /\ unit > Len(units)
    /\ saved' = [written |-> TRUE, data |-> all_processed_data]
    /\ pc' = "done"
    /\ UNCHANGED <<unit, all_processed_data, contributed, parsed>>
    /\ UNCHANGED <<csv, inputVars, settingVars, callVars, recordVars>>

Init ==
    /\ pc = "start"
    /\ config \in RunConfigs
    /\ metadata \in RunMetadatas
    /\ units \in UnitLists
    /\ NoSettings /\ NoRun /\ NoCall /\ NoRecord
    /\ parsed = NoResult

Next ==
    \/ main_startup
    \/ process_unit_begin
    \/ attempt_returns
    \/ attempt_fails
    \/ retries_exhausted
    \/ process_unit_finish
    \/ main_save

Spec == Init /\ [][Next]_vars

\* main is one sequential thread: every request returns or raises and
\* every sleep ends
FairSpec == Spec /\ WF_vars(Next)

----------------------------------------------------------------------------
(* One call of call_gemini_api_with_retries on its own *)

InitCall ==
    /\ pc = "calling"
    /\ max_retries \in 0..MaxRetries
    /\ initial_delay \in 0..MaxDelay
    /\ config = NoConfig
    /\ metadata = NoMetadata
    /\ units = <<>>
    /\ response_schema = Schema(<<"date", "original_file_name">>)
    /\ filename_to_link_mapping = EmptyIndex
    /\ NoRun /\ NoCall /\ NoRecord
    /\ parsed = NoResult

NextCall == attempt_returns \/ attempt_fails \/ retries_exhausted

SpecCall == InitCall /\ [][NextCall]_vars

----------------------------------------------------------------------------
(* The parse of one response text on its own *)

\* lines 31-41
parse_text ==
    /\ pc = "parse"
    /\ parsed' = ParseResponse(json_string)
    /\ pc' = "parse_done"
    /\ UNCHANGED <<json_string, attempt, requests, sleeps, reports, lastOutcome,
                   gemini_response>>
    /\ UNCHANGED <<csv, inputVars, settingVars, runVars, recordVars>>

InitParse ==
    /\ pc = "parse"
    /\ json_string \in SeqsUpTo(ParseTokens, MaxLen) \cup ExampleTexts
    /\ config = NoConfig
    /\ metadata = NoMetadata
    /\ units = <<>>
    /\ attempt = 0 /\ requests = 0 /\ sleeps = <<>> /\ reports = 0
    /\ lastOutcome = "none" /\ gemini_response = None
    /\ NoSettings /\ NoRun /\ NoRecord
    /\ parsed = NoResult

NextParse == parse_text

SpecParse == InitParse /\ [][NextParse]_vars

----------------------------------------------------------------------------
(* load_metadata and the normalisation of one raw record on their own *)

\* line 152
load_index ==
    /\ pc = "load"
    /\ filename_to_link_mapping' = load_metadata(metadata)
    /\ pc' = "normalize"
    /\ UNCHANGED <<response_schema, max_retries, initial_delay, parsed>>
    /\ UNCHANGED <<csv, inputVars, runVars, callVars, recordVars>>

\* the link looked up with setdefault, which stores the sentinel it returns
normalize_record_setdefault ==
    /\ pc \in {"normalize", "normalized"}
    /\ processed_transaction' =
          Normalize(transaction, response_schema.fields, filename_to_link_mapping)
    /\ LET original_name == dict_get(transaction, "original_file_name", "null")
       IN  filename_to_link_mapping' =
              IF original_name \in DOMAIN filename_to_link_mapping
              THEN filename_to_link_mapping
              ELSE IndexPut(filename_to_link_mapping, original_name, "Link not found")
    /\ pc' = "normalized"
    /\ UNCHANGED <<transaction, parsed, response_schema, max_retries, initial_delay>>
    /\ UNCHANGED <<csv, inputVars, runVars, callVars>>

\* lines 99-106, for the first time or once more on the same raw record
normalize_record ==
    /\ pc \in {"normalize", "normalized"}
    /\ processed_transaction' =
          Normalize(transaction, response_schema.fields, filename_to_link_mapping)
    /\ pc' = "normalized"
    /\ UNCHANGED <<transaction, parsed>>
    /\ UNCHANGED <<csv, inputVars, settingVars, runVars, callVars>>

InitRecord ==
    /\ pc = "load"
    /\ metadata \in Metadatas
    /\ response_schema \in {Schema(f) : f \in FieldLists}
    /\ transaction \in RawRecords
    /\ processed_transaction = <<>>
    /\ config = NoConfig
    /\ units = <<>>
    /\ max_retries = 0
    /\ initial_delay = 0
    /\ filename_to_link_mapping = EmptyIndex
    /\ NoRun /\ NoCall
    /\ parsed = NoResult

NextRecord == load_index \/ normalize_record

SpecRecord == InitRecord /\ [][NextRecord]_vars

----------------------------------------------------------------------------
(* Properties of one call: SpecCall *)

AttemptFailed == lastOutcome \notin {"none", "parsed"}

\* C1: in a call with max_retries = N >= 1 whose attempts all fail, after k
\* failed attempts k requests were issued and the delays slept are
\* initial_delay * 2^i for i = 0, 1, ... in order, one after each attempt
\* but the N-th; the call then returns None with N requests and N - 1 sleeps.
RetryPolicy ==
    (max_retries >= 1 /\ lastOutcome # "parsed") =>
        /\ requests = attempt
        /\ attempt <= max_retries
        /\ sleeps = [i \in 1..(IF attempt < max_retries THEN attempt ELSE max_retries - 1)
                        |-> initial_delay * Pow2(i - 1)]
        /\ pc = "returned" => (attempt = max_retries /\ gemini_response = None)

RetryPolicyWitness ==
    /\ pc = "returned"
    /\ max_retries = 3
    /\ initial_delay = 1
    /\ AttemptFailed
    /\ requests = 3
    /\ sleeps = <<1, 2>>
    /\ gemini_response = None

\* C2 as stated: None is returned only after all max_retries attempts
\* failed, and a value returned after a successful attempt is non-empty.
ExhaustedOrNonEmpty ==
    pc = "returned" =>
        /\ gemini_response = None => (attempt = max_retries /\ lastOutcome # "parsed")
        /\ lastOutcome = "parsed" => ~Falsy(gemini_response)

\* C2 as amended: a call that returns after a successful attempt returns the
\* JSON value of that attempt's text (of the whole text or of the matched
\* substring), empty or not; otherwise it returns None and all max_retries
\* attempts have failed; so None after a success means the text held null.
ExhaustedOrParsedValue ==
    pc = "returned" =>
        IF lastOutcome = "parsed"
        THEN /\ attempt < max_retries
             /\ \/ IsJson(json_string) /\ gemini_response = json_loads(json_string)
                \/ /\ ~IsJson(json_string)
                   /\ IsJson(re_search(json_string).group)
                   /\ gemini_response = json_loads(re_search(json_string).group)
             /\ gemini_response = None => json_loads(json_string) = <<"null">>
        ELSE /\ attempt = max_retries
             /\ requests = max_retries
             /\ gemini_response = None

ExhaustedOrParsedValueWitness ==
    /\ pc = "returned"
    /\ lastOutcome = "parsed"
    /\ gemini_response = <<"[", "]">>
    /\ requests = 2
    /\ max_retries = 3

\* C3: an attempt that fails, whatever the failure, is reported and leaves
\* the call in its loop with the attempt counted; the call never raises, and
\* when it returns without a parsed value all max_retries attempts were made
\* and the value is None.
FailuresStayInside ==
    /\ [][(requests' = requests + 1 /\ lastOutcome' # "parsed") =>
             /\ pc' = "calling"
             /\ attempt' = attempt + 1
             /\ reports' = reports + 1]_vars
    /\ [](pc \in {"calling", "returned"})
    /\ []((pc = "returned" /\ lastOutcome # "parsed") =>
             (attempt = max_retries /\ reports = max_retries /\ gemini_response = None))

FailuresStayInsideWitness ==
    /\ pc = "returned"
    /\ lastOutcome = "no_parts"
    /\ max_retries = 3
    /\ reports = 3
    /\ gemini_response = None

----------------------------------------------------------------------------
(* Properties of the normalisation: SpecRecord *)

Keys(d) == [p \in 1..Len(d) |-> d[p][1]]
Declares(fields, k) == \E p \in 1..Len(fields) : fields[p] = k
Holds(d, k, v) == \E p \in 1..Len(d) : d[p] = <<k, v>>
RawHas(raw, k) == \E p \in 1..Len(raw) : Key(raw[p]) = k

\* C4 as stated: the keys of the normalised record are the schema's fields
\* in schema order followed by drive_link.
KeysAreFieldsThenLink ==
    pc = "normalized" =>
        Keys(processed_transaction) = response_schema.fields \o <<"drive_link">>

\* C4 as amended: the keys are the schema's fields in schema order, followed
\* by drive_link unless the schema itself declares drive_link, in which case
\* drive_link keeps its schema position and no key is added.
KeysAreFieldsWithLink ==
    pc = "normalized" =>
        Keys(processed_transaction) =
            IF Declares(response_schema.fields, "drive_link")
            THEN response_schema.fields
            ELSE response_schema.fields \o <<"drive_link">>

KeysAreFieldsWithLinkWitness ==
    /\ pc = "normalized"
    /\ response_schema.fields = <<"date", "original_file_name">>
    /\ RawHas(transaction, "extra")
    /\ ~RawHas(transaction, "date")
    /\ Keys(processed_transaction) = <<"date", "original_file_name", "drive_link">>

\* the link the code looks up for a raw record
LinkFor(raw, index) ==
    IF \E p \in 1..Len(raw) :
          Key(raw[p]) = "original_file_name" /\ Val(raw[p]) \in DOMAIN index
    THEN index[Val(raw[CHOOSE p \in 1..Len(raw) : Key(raw[p]) = "original_file_name"])]
    ELSE "Link not found"

\* C5 as stated: every declared field holds the raw record's value when the
\* raw record has the key and "N/A" when it has not.
DeclaredFieldsCopied ==
    pc = "normalized" =>
        \A p \in 1..Len(response_schema.fields) :
            LET field == response_schema.fields[p]
            IN  \/ \E q \in 1..Len(transaction) :
                      /\ Key(transaction[q]) = field
                      /\ Holds(processed_transaction, field, Val(transaction[q]))
                \/ /\ ~RawHas(transaction, field)
                   /\ Holds(processed_transaction, field, "N/A")

\* C5 as amended: every declared field other than drive_link holds the raw
\* record's value when the raw record has the key and "N/A" when it has
\* not; a declared drive_link holds the provenance link.
DeclaredFieldsCopiedButLink ==
    pc = "normalized" =>
        \A p \in 1..Len(response_schema.fields) :
            LET field == response_schema.fields[p]
            IN  IF field = "drive_link"
                THEN Holds(processed_transaction, field,
                           LinkFor(transaction, filename_to_link_mapping))
                ELSE \/ \E q \in 1..Len(transaction) :
                           /\ Key(transaction[q]) = field
                           /\ Holds(processed_transaction, field, Val(transaction[q]))
                     \/ /\ ~RawHas(transaction, field)
                        /\ Holds(processed_transaction, field, "N/A")

DeclaredFieldsCopiedButLinkWitness ==
    /\ pc = "normalized"
    /\ response_schema.fields = <<"date", "original_file_name">>
    /\ transaction = <<"date=null", "extra=q">>
    /\ Holds(processed_transaction, "date", "null")
    /\ Holds(processed_transaction, "original_file_name", "N/A")

RealLinks == {"http://l1"}

\* the entry that decides the index value of its filename: the last one
Deciding(entries, p) ==
    /\ HasFilename(entries[p])
    /\ \A q \in (p + 1)..Len(entries) : entries[q].filename # entries[p].filename

\* C6: the provenance link is the index's link for original_file_name when
\* the index has that name and "Link not found" when it has not; an index
\* entry built from a metadata entry without a link (the key missing, or
\* null as driver_downloader writes it) is "Link not available"; so every
\* provenance link is a real link or one of the two sentinels.
LinkOrSentinel ==
    /\ (pc \in {"normalize", "normalized"} /\ metadata.kind = "ok") =>
          \A p \in 1..Len(metadata.entries) :
              (Deciding(metadata.entries, p) /\ metadata.entries[p].link \in {Absent, "null"})
                  => filename_to_link_mapping[metadata.entries[p].filename]
                        = "Link not available"
    /\ pc = "normalized" =>
          /\ Holds(processed_transaction, "drive_link",
                   LinkFor(transaction, filename_to_link_mapping))
          /\ \E link \in RealLinks \cup {"Link not found", "Link not available"} :
                 Holds(processed_transaction, "drive_link", link)

----------------------------------------------------------------------------
(* Properties of the run: Spec and FairSpec *)

RECURSIVE Flatten(_)
Flatten(lists) ==
    IF lists = <<>> THEN <<>> ELSE lists[1] \o Flatten(Tail(lists))

IsPrefix(s, t) == Len(s) <= Len(t) /\ SubSeq(t, 1, Len(s)) = s

\* C7: the batch is at every point the concatenation, in unit order, of
\* what the units finished so far returned, one entry per finished unit;
\* a step only appends to it, so a unit that returns nothing leaves its
\* neighbours' records adjacent and in order.
BatchIsConcatenation ==
    /\ [](all_processed_data = Flatten(contributed))
    /\ [](pc \in {"loop", "calling", "returned", "done"} => Len(contributed) = unit - 1)
    /\ [][IsPrefix(all_processed_data, all_processed_data')
          /\ IsPrefix(contributed, contributed')]_vars

BatchIsConcatenationWitness ==
    /\ pc = "done"
    /\ Len(units) = 3
    /\ contributed[1] # <<>>
    /\ contributed[2] = <<>>
    /\ contributed[3] # <<>>
    /\ contributed[1] # contributed[3]
    /\ all_processed_data = contributed[1] \o contributed[3]

\* the step that ends a unit
UnitEnds == unit >= 1 /\ unit' = unit + 1

\* the unit that is ending has failed: a line raised before the call, the
\* retries were exhausted, the response is empty, or the loop over the
\* response raised
UnitFailed ==
    \/ pc = "loop"
    \/ lastOutcome # "parsed"
    \/ Falsy(gemini_response)
    \/ ExtractRecords(gemini_response, response_schema.fields,
                      filename_to_link_mapping).raised

\* C8 as stated, its safety part: every unit that ends has had at least one
\* request.
EveryUnitAttempted == [][UnitEnds => requests >= 1]_vars

\* C8 as amended: once the configuration is accepted the run reaches the
\* end of the unit list and writes the batch; a unit that ends has had at
\* least one request unless a line raised before its call or max_retries is
\* below 1; a unit that failed adds nothing to the batch; and the run is
\* then at the next unit.
BestEffortRun ==
    /\ (pc = "loop") ~> (pc = "done" /\ saved.written /\ Len(contributed) = Len(units))
    /\ [][UnitEnds =>
            /\ requests >= 1 \/ pc = "loop" \/ max_retries < 1
            /\ (pc = "returned" /\ max_retries >= 1) => requests >= 1
            /\ UnitFailed => all_processed_data' = all_processed_data
            /\ pc' = "loop"]_vars

BestEffortRunWitness ==
    /\ pc = "done"
    /\ saved.written
    /\ Len(units) = 3
    /\ ~units[1].readable
    /\ contributed[2] = <<>>
    /\ units[2].readable
    /\ contributed[3] # <<>>
    /\ saved.data = contributed[3]

\* the configurations C9 calls invalid
ConfigInvalid(cfg) ==
    \/ ~cfg.present
    \/ ~cfg.ints_ok
    \/ ~cfg.key_ok
    \/ cfg.schema.kind # "object"
    \/ cfg.schema.fields = <<>>

\* C9: with an invalid configuration main stops at startup: no unit is
\* processed, no request is issued and no record is appended.
InvalidConfigStops ==
    ConfigInvalid(config) =>
        /\ pc \notin {"calling", "returned", "done"}
        /\ requests = 0
        /\ all_processed_data = <<>>

----------------------------------------------------------------------------
(* Properties of the parse: SpecParse *)

Brackets == {"[", "]", "{", "}"}

\* text[i..j] is one JSON array or object with only bracket-free text
\* around it
Sandwich(text, i, j) ==
    /\ text[i] \in {"[", "{"}
    /\ IsJson(SubSeq(text, i, j))
    /\ \A p \in 1..Len(text) : (p < i \/ p > j) => text[p] \notin Brackets

\* C10: a text that is JSON as a whole parses to its value by the primary
\* path; the fallback is used only when the whole text is not JSON, and its
\* value is that of the substring from the first opening bracket that has
\* its closing bracket later in the text to the last such closing bracket;
\* so bracket-free prose around one JSON array or object yields that value.
RecoveryParse ==
    pc = "parse_done" =>
        /\ IsJson(json_string) =>
              /\ parsed.ok /\ parsed.path = "primary"
              /\ parsed.value = json_loads(json_string)
              /\ \A p \in 1..Len(parsed.value) : parsed.value[p] # "w"
        /\ parsed.path = "fallback" =>
              /\ ~IsJson(json_string)
              /\ \E i, j \in 1..Len(json_string) :
                    /\ i < j
                    /\ json_string[i] \in {"[", "{"}
                    /\ json_string[j] = Closer(json_string[i])
                    /\ \A p \in 1..(i - 1) :
                          json_string[p] \in {"[", "{"} =>
                              \A q \in (p + 1)..Len(json_string) :
                                  json_string[q] # Closer(json_string[p])
                    /\ \A q \in (j + 1)..Len(json_string) :
                          json_string[q] # json_string[j]
                    /\ IsJson(SubSeq(json_string, i, j))
                    /\ parsed.value = json_loads(SubSeq(json_string, i, j))
        /\ \A i, j \in 1..Len(json_string) :
              Sandwich(json_string, i, j) =>
                  parsed.ok /\ parsed.value = json_loads(SubSeq(json_string, i, j))

RecoveryParseWitness ==
    /\ pc = "parse_done"
    /\ json_string = <<"x", "[", "{", "date=a", "}", "]", "x">>
    /\ parsed.ok
    /\ parsed.path = "fallback"
    /\ parsed.value = <<"[", "{", "date=a", "}", "]">>

----------------------------------------------------------------------------
(* Properties of a unit's processing: Spec and FairSpec *)

\* the latest attempt got a text that failed both parses
Unparseable == {"no_json", "bad_substring"}

\* C11 as stated: once a text received for a unit has failed both parses,
\* that unit contributes no record.
UnparseableTextEndsUnit ==
    \A k \in 1..MaxUnits :
        []((unit = k /\ lastOutcome \in Unparseable) =>
              [](Len(contributed) >= k => contributed[k] = <<>>))

\* C11 as amended: a text that fails both parses makes its attempt a failed
\* one, so the call goes on to the next attempt with the batch untouched;
\* when the last attempt of a unit ended that way the unit contributes no
\* record and the run is at the next unit.
UnparseableTextRetried ==
    /\ [][(requests' = requests + 1 /\ lastOutcome' \in Unparseable) =>
             /\ pc' = "calling"
             /\ attempt' = attempt + 1
             /\ unit' = unit
             /\ all_processed_data' = all_processed_data]_vars
    /\ [][(UnitEnds /\ lastOutcome \in Unparseable) =>
             /\ attempt = max_retries
             /\ all_processed_data' = all_processed_data
             /\ Len(contributed') = unit
             /\ contributed'[unit] = <<>>
             /\ pc' = "loop"]_vars

UnparseableTextRetriedWitness ==
    /\ pc = "returned"
    /\ lastOutcome = "bad_substring"
    /\ requests = 2
    /\ gemini_response = None
    /\ unit = 2
    /\ all_processed_data # <<>>

\* where the unit main is at stands
Phase ==
    IF pc = "loop" /\ unit >= 1 /\ unit <= Len(units) THEN "PENDING"
    ELSE IF pc = "calling" THEN "CALLING"
    ELSE IF pc = "returned" /\ lastOutcome = "parsed" THEN "PARSED"
    ELSE IF pc = "returned" THEN "EXHAUSTED"
    ELSE "NONE"

\* the elements of the response the call returned
ResponseElements == SplitElements(gemini_response, 0, <<>>)

\* the unit ends with one normalised record appended per element
EndsAppended ==
    /\ UnitEnds
    /\ IsList(gemini_response)
    /\ Len(all_processed_data') = Len(all_processed_data) + Len(ResponseElements)
    /\ contributed' = Append(contributed,
                             SubSeq(all_processed_data', Len(all_processed_data) + 1,
                                    Len(all_processed_data')))
    /\ pc' = "loop"

\* the unit ends with no record
EndsFailed ==
    /\ UnitEnds
    /\ all_processed_data' = all_processed_data
    /\ contributed' = Append(contributed, <<>>)
    /\ pc' = "loop"

\* C12 as stated: a unit ends in one of two ways only: after a call that
\* returned a parsed response, with its records normalised and appended, or
\* after a call whose retries were exhausted, with no record.
TwoTrajectories ==
    [][UnitEnds =>
          \/ Phase = "PARSED" /\ EndsAppended
          \/ Phase = "EXHAUSTED" /\ attempt = max_retries /\ EndsFailed]_vars

\* C12 as amended: a pending unit goes to calling, or fails at once with no
\* record when a line raises before the call; a calling unit stays calling
\* after a failed attempt (a text that does not parse included), goes on
\* with the parsed value of a successful attempt, or fails with no record
\* once max_retries attempts are used up; a unit with a parsed value fails
\* with no record when the value is empty or null, or when it is not a list
\* of objects, and otherwise has one record per element appended.
UnitTrajectories ==
    [][/\ Phase = "PENDING" =>
             \/ Phase' = "CALLING" /\ unit' = unit /\ ~RaisesBeforeCall
             \/ EndsFailed /\ RaisesBeforeCall
       /\ Phase = "CALLING" =>
             \/ /\ Phase' = "CALLING" /\ unit' = unit
                /\ attempt' = attempt + 1 /\ lastOutcome' \notin {"none", "parsed"}
             \/ Phase' = "PARSED" /\ unit' = unit /\ attempt < max_retries
             \/ Phase' = "EXHAUSTED" /\ unit' = unit /\ attempt = max_retries
       /\ Phase = "EXHAUSTED" => EndsFailed
       /\ Phase = "PARSED" =>
             IF \/ Falsy(gemini_response)
                \/ ~IsList(gemini_response)
                \/ \E p \in 1..Len(ResponseElements) : ~IsDict(ResponseElements[p])
             THEN EndsFailed
             ELSE EndsAppended /\ Len(ResponseElements) >= 1
       /\ UnitEnds => Phase \in {"PENDING", "EXHAUSTED", "PARSED"}]_vars

UnitTrajectoriesWitness ==
    /\ pc = "done"
    /\ Len(contributed) = 3
    /\ Len(contributed[1]) = 2
    /\ contributed[2] = <<>>
    /\ ~units[3].readable
    /\ contributed[3] = <<>>

----------------------------------------------------------------------------
(* output_to_csv.py: transform_data_to_csv run after main *)

\* the header with the link column put first
CsvHeadersLinkFirst(fields) == <<"drive_link">> \o fields

\* output_to_csv.py lines 34-37
CsvHeaders(fields) == fields \o <<"drive_link">>

\* item.get(header, "N/A") on a record kept as <<key, value>> pairs
item_get(item, header) ==
    IF \E p \in 1..Len(item) : item[p][1] = header
    THEN item[CHOOSE p \in 1..Len(item) : item[p][1] = header][2]
    ELSE "N/A"

\* csv.writer writes None as the empty string
CsvCell(value) == IF value = "null" THEN "" ELSE value

\* output_to_csv.py line 55
CsvRow(item, headers) ==
    [c \in 1..Len(headers) |-> CsvCell(item_get(item, headers[c]))]

\* output_to_csv.py lines 13-41: the input file is missing, or the schema of
\* config.ini does not yield its headers
CsvFails ==
    \/ ~saved.written
    \/ ~config.present
    \/ config.schema.kind # "object"

\* output_to_csv.py lines 7-63
transform_data_to_csv ==
    /\ pc \in {"done", "exit", "crash"}
    /\ IF CsvFails
       THEN /\ pc' = "csv_failed"
            /\ UNCHANGED csv
       ELSE /\ pc' = "csv_done"
            /\ LET headers == CsvHeaders(config.schema.fields)
               IN  csv' = [written |-> TRUE,
                           rows |-> <<headers>> \o
                                    [r \in 1..Len(saved.data) |->
                                        CsvRow(saved.data[r], headers)]]
    /\ UNCHANGED <<inputVars, settingVars, runVars, callVars, recordVars, parsed>>

PipelineConfigs ==
    { [GoodConfig EXCEPT !.max_retries = 1],
      [GoodConfig EXCEPT !.max_retries = 1, !.schema = Schema(<<"drive_link", "date">>)],
      [GoodConfig EXCEPT !.schema = [kind |-> "not_object", fields |-> <<>>]],
      [GoodConfig EXCEPT !.key_ok = FALSE] }

InitPipeline ==
    /\ pc = "start"
    /\ config \in PipelineConfigs
    /\ metadata \in RunMetadatas
    /\ units \in UnitLists
    /\ NoSettings /\ NoRun /\ NoCall /\ NoRecord
    /\ parsed = NoResult

NextPipeline == Next \/ transform_data_to_csv

SpecPipeline == InitPipeline /\ [][NextPipeline]_vars

\* the header and the rows of the report follow the schema and the batch
ReportFollowsSchema ==
    /\ csv.written
    /\ Len(csv.rows) = Len(saved.data) + 1
    /\ csv.rows[1] = response_schema.fields \o <<"drive_link">>
    /\ \A r \in 1..Len(saved.data) :
          /\ Len(csv.rows[r + 1]) = Len(csv.rows[1])
          /\ \A c \in 1..Len(csv.rows[1]) :
                \E v \in {"a", "doc1", "doc2", "z", "q", "null", "N/A", "http://l1",
                          "Link not found", "Link not available"} :
                    /\ Holds(saved.data[r], csv.rows[1][c], v)
                    /\ csv.rows[r + 1][c] = IF v = "null" THEN "" ELSE v

\* C13 as stated: the header is the schema's fields followed by drive_link,
\* each row holds its record's values for those headers in order, one row
\* per record in batch order, and the header is the key list of every
\* record of the batch.
ReportLinesUp ==
    pc = "csv_done" =>
        /\ ReportFollowsSchema
        /\ \A r \in 1..Len(saved.data) : Keys(saved.data[r]) = csv.rows[1]

\* C13 as amended: the header is the schema's fields followed by drive_link,
\* each row holds its record's values for those headers in order (None as
\* the empty cell), one row per record in batch order; the header is the
\* key list of every record unless the schema declares drive_link, in which
\* case the records' keys are the schema's fields and the header repeats
\* drive_link as its last column, with the same link in both columns.
ReportLinesUpButLink ==
    pc = "csv_done" =>
        /\ ReportFollowsSchema
        /\ \A r \in 1..Len(saved.data) :
              IF Declares(response_schema.fields, "drive_link")
              THEN /\ Keys(saved.data[r]) = response_schema.fields
                   /\ \A c \in 1..Len(csv.rows[1]) :
                         csv.rows[1][c] = "drive_link" =>
                             csv.rows[r + 1][c] = csv.rows[r + 1][Len(csv.rows[1])]
              ELSE Keys(saved.data[r]) = csv.rows[1]

ReportLinesUpButLinkWitness ==
    /\ pc = "csv_done"
    /\ response_schema.fields = <<"date", "original_file_name">>
    /\ Len(csv.rows) = 4
    /\ csv.rows[2] = <<"a", "doc1", "http://l1">>
    /\ csv.rows[3] = <<"N/A", "doc2", "Link not found">>
    /\ csv.rows[4] = <<"", "N/A", "Link not found">>

----------------------------------------------------------------------------
(* Purity of the normalisation: SpecRecord *)

\* C14: normalising leaves the index, the schema and the raw record as they
\* were, the index being the one load_metadata built from the metadata
\* file; and normalising the same raw record once more, with the same
\* schema and index, yields the record it yielded before.
NormalizationIsPure ==
    /\ [][(pc \in {"normalize", "normalized"}) =>
             /\ filename_to_link_mapping' = filename_to_link_mapping
             /\ response_schema' = response_schema
             /\ transaction' = transaction]_vars
    /\ [][(pc = "normalized") => processed_transaction' = processed_transaction]_vars
    /\ [](pc \in {"normalize", "normalized"} =>
             /\ DOMAIN filename_to_link_mapping \subseteq {"doc1", "doc2"}
             /\ \A name \in DOMAIN filename_to_link_mapping :
                   \E p \in 1..Len(metadata.entries) :
                       metadata.entries[p].filename = name)

NormalizationIsPureWitness ==
    /\ pc = "normalized"
    /\ DOMAIN filename_to_link_mapping = {"doc1"}
    /\ RawHas(transaction, "original_file_name")
    /\ Holds(processed_transaction, "drive_link", "Link not found")

----------------------------------------------------------------------------
(* The first successful attempt: SpecCall *)

\* C15: when attempt k is the first to succeed the call has issued k
\* requests, slept after each of the k - 1 failed attempts and at no other
\* time, and returns the value parsed from the text of attempt k; the
\* successful attempt itself adds no sleep, and nothing follows it.
FirstSuccessEndsCall ==
    /\ []((pc = "returned" /\ lastOutcome = "parsed") =>
             /\ requests = attempt + 1
             /\ requests <= max_retries
             /\ reports = requests - 1
             /\ sleeps = [i \in 1..(requests - 1) |-> initial_delay * Pow2(i - 1)]
             /\ \/ gemini_response = json_loads(json_string)
                \/ gemini_response = json_loads(re_search(json_string).group))
    /\ [][(lastOutcome' = "parsed" /\ lastOutcome # "parsed") =>
             /\ requests' = requests + 1
             /\ sleeps' = sleeps
             /\ pc' = "returned"]_vars
    /\ [][(pc = "returned") => (requests' = requests /\ sleeps' = sleeps)]_vars

FirstSuccessEndsCallWitness ==
    /\ pc = "returned"
    /\ lastOutcome = "parsed"
    /\ max_retries = 3
    /\ initial_delay = 2
    /\ requests = 3
    /\ sleeps = <<2, 4>>
    /\ gemini_response = <<"[">> \o Record2 \o <<"]">>

----------------------------------------------------------------------------
(* A unit contributes all of its response or nothing: Spec *)

\* the records the ending unit adds to the batch
AddedByUnit == SubSeq(all_processed_data', Len(all_processed_data) + 1,
                      Len(all_processed_data'))

\* C16: a unit adds to the batch either nothing or one normalised record
\* for every element of the response, in the order of the response; when an
\* element cannot be normalised the unit adds nothing, so the batch never
\* gains a proper part of one response.
AllOrNothing ==
    [][UnitEnds =>
          /\ all_processed_data' = all_processed_data \o AddedByUnit
          /\ contributed' = Append(contributed, AddedByUnit)
          /\ \/ AddedByUnit = <<>>
             \/ /\ Phase = "PARSED"
                /\ Len(AddedByUnit) = Len(ResponseElements)
                /\ \A p \in 1..Len(ResponseElements) :
                      /\ IsDict(ResponseElements[p])
                      /\ AddedByUnit[p] = Normalize(MembersOf(ResponseElements[p]),
                                                    response_schema.fields,
                                                    filename_to_link_mapping)
          /\ (/\ Phase = "PARSED"
              /\ \E p \in 1..Len(ResponseElements) : ~IsDict(ResponseElements[p]))
                => AddedByUnit = <<>>]_vars

\* an earlier unit added both records of a two-element response and the
\* present unit holds a response whose second element is not an object
AllOrNothingWitness ==
    /\ pc = "returned"
    /\ unit = 2
    /\ gemini_response = <<"[">> \o Record1 \o <<",", "1", "]">>
    /\ Len(contributed) = 1
    /\ Len(contributed[1]) = 2
    /\ all_processed_data = contributed[1]

====
